---- MODULE Spec2Model ----
(***************************************************************************)
(* statSTR (trtools/statSTR/statSTR.py): per-locus statistics of a TR VCF. *)
(* The model follows run() -> getargs() -> main(): the configuration       *)
(* checks, the sample-group list, the header, and the loop over the        *)
(* records with its optional allele-frequency plot and its statistic row.  *)
(*                                                                         *)
(* Floats are exact non-negative rationals n/d, or the not-a-number value. *)
(* Text is TLA+ strings; a line of the output is the sequence of the       *)
(* chunks the code writes for it.                                          *)
(***************************************************************************)
EXTENDS Integers, Sequences, FiniteSets, TLC

VARIABLES
    args,             \* the parsed command line (argparse namespace)
    pc,               \* position in run()/main()
    status,           \* exit status of the process: "running", 0 or 1
    exc,              \* exception that left main(), "none" if none
    error,            \* which configuration error was reported, "none" if none
    sample_lists,     \* main's sample_lists
    sample_prefixes,  \* main's sample_prefixes
    outf,             \* lines written to the output, in order
    outstate,         \* "unopened", "open" or "closed"
    num_plotted,      \* main's num_plotted
    nrecords,         \* main's nrecords
    plots,            \* names of the plot files written, in order
    plotcalls,        \* number of calls of PlotAlleleFreqs
    consumed,         \* the records read from the VCF so far, in order
    calls,            \* TRRecord calls made while processing the last record
    invcf,            \* number of records the reader has left
    fmt,              \* formatter harness: input and result of the last call
    defaults,         \* the default samplelists object of each statistic function
    history           \* statistic harness: per call kind, its count and its results

vars == <<args, pc, status, exc, error, sample_lists, sample_prefixes, outf,
          outstate, num_plotted, nrecords, plots, plotcalls, consumed, calls,
          invcf, fmt, defaults, history>>

(***************************************************************************)
(* Program constant and model bounds                                       *)
(***************************************************************************)
MAXPLOTS == 10

\* default of --precision
DefaultPrecision == 3

\* longest input of the general specification
MaxLoci == 2
\* longest input of the plotting specification (beyond MAXPLOTS + 1)
MaxPlotLoci == 12
\* the general specification requests at most this many statistics, or all
MaxStats == 1
\* largest numerator of the floats handed to the formatter on its own
MaxNum == 12
\* most calls of the statistic functions made on their own on one record
MaxCalls == 3

(***************************************************************************)
(* Floats                                                                  *)
(***************************************************************************)
NaN == [nan |-> TRUE, n |-> 0, d |-> 1]

Fl(n, d) == [nan |-> FALSE, n |-> n, d |-> d]

isnan(val) == val.nan

RECURSIVE Pow10(_)
Pow10(k) == IF k <= 0 THEN 1 ELSE 10 * Pow10(k - 1)

\* n/d rounded to an integer, ties to even
RoundHalfEven(n, d) ==
    LET q == n \div d
        r == n % d
    IN  IF 2 * r > d THEN q + 1
        ELSE IF 2 * r < d THEN q
        ELSE IF q % 2 = 0 THEN q ELSE q + 1

\* decimal exponent of n/d > 0: the e with 10^e <= n/d < 10^(e+1)
RECURSIVE Exp10(_, _, _)
Exp10(n, d, e) ==
    IF n >= 10 * d THEN Exp10(n, 10 * d, e + 1)
    ELSE IF n < d THEN Exp10(10 * n, d, e - 1)
    ELSE e

\* the decimal digits of m, at least width of them
RECURSIVE Digits(_, _)
Digits(m, width) ==
    IF m < 10 /\ width <= 1 THEN ToString(m)
    ELSE Digits(m \div 10, width - 1) \o ToString(m % 10)

RECURSIVE StripZeros(_)
StripZeros(m) == IF m # 0 /\ m % 10 = 0 THEN StripZeros(m \div 10) ELSE m

RECURSIVE NumDigits(_)
NumDigits(m) == IF m < 10 THEN 1 ELSE 1 + NumDigits(m \div 10)

RECURSIVE Zeros(_)
Zeros(k) == IF k <= 0 THEN "" ELSE "0" \o Zeros(k - 1)

\* "{:.<precision>}".format(val) of a float that is not nan: <precision>
\* significant digits, trailing zeros dropped, at least one digit after the point,
\* exponent form when the decimal exponent is < -4 or >= precision - 1
FormatGeneral(precision, val) ==
    IF val.n = 0 THEN (IF precision <= 1 THEN "0e+00" ELSE "0.0")
    ELSE
    LET e0 == Exp10(val.n, val.d, 0)
        sh == precision - 1 - e0
        m0 == IF sh >= 0 THEN RoundHalfEven(val.n * Pow10(sh), val.d)
                         ELSE RoundHalfEven(val.n, val.d * Pow10(-sh))
        over == m0 >= Pow10(precision)
        e  == IF over THEN e0 + 1 ELSE e0
        m  == IF over THEN m0 \div 10 ELSE m0      \* precision digits
        s  == StripZeros(m)
        k  == NumDigits(m) - NumDigits(s)          \* zeros dropped: m = s * 10^k
        ns == NumDigits(s)
        ae == IF e < 0 THEN -e ELSE e
    IN  IF e < -4 \/ e >= precision - 1
        THEN Digits(s \div Pow10(ns - 1), 1)
             \o (IF ns > 1 THEN "." \o Digits(s % Pow10(ns - 1), ns - 1) ELSE "")
             \o "e" \o (IF e < 0 THEN "-" ELSE "+") \o Digits(ae, 2)
        ELSE IF e >= 0
        THEN \* integer part: the first e + 1 of the precision digits
             LET fd == precision - 1 - e           \* digits of m after the point
                 ip == m \div Pow10(fd)
                 fp == m % Pow10(fd)
                 fs == StripZeros(fp)
                 fk == IF fp = 0 THEN fd ELSE NumDigits(fp) - NumDigits(fs)
             IN  ToString(ip) \o "."
                 \o (IF fp = 0 THEN "0" ELSE Digits(fs, fd - fk))
        ELSE "0." \o Zeros(-e - 1) \o Digits(s, ns)

\* "%.3f" % val
FormatF3(val) ==
    LET m == RoundHalfEven(val.n * 1000, val.d)
    IN  ToString(m \div 1000) \o "." \o Digits(m % 1000, 3)

\* str(x) of a float with an integer value
StrIntFloat(i) == ToString(i) \o ".0"

(***************************************************************************)
(* The records of the VCF, as trh.HarmonizeRecord presents them            *)
(***************************************************************************)
\* samples of the VCF
Samples == {"s1", "s2"}

\* no call for a sample at a record
NoCall == <<>>

\* allele sequences (motif "AC") and their lengths in repeat units
AlleleSeqs == {"ACAC", "ACAG", "ACACAC"}

AlleleLen == [a \in AlleleSeqs |-> IF a = "ACACAC" THEN 3 ELSE 2]

\* position of an allele sequence in Python's string order
StrRank == [a \in AlleleSeqs |->
              IF a = "ACAC" THEN 1 ELSE IF a = "ACACAC" THEN 2 ELSE 3]

\* the kinds of record an input can hold: everyone called, one sample called,
\* nobody called
Records ==
    { [CHROM |-> "chr1", POS |-> 10, ref_allele |-> "ACAC",
       calls |-> [s \in Samples |-> IF s = "s1" THEN <<"ACAC", "ACAG">>
                                                ELSE <<"ACAC", "ACACAC">>]],
      [CHROM |-> "chr1", POS |-> 20, ref_allele |-> "ACAC",
       calls |-> [s \in Samples |-> IF s = "s1" THEN NoCall
                                                ELSE <<"ACAG", "ACACAC">>]],
      [CHROM |-> "chr2", POS |-> 30, ref_allele |-> "ACACAC",
       calls |-> [s \in Samples |-> NoCall]] }

\* a sample list: None, or the names read from a sample file
None == [none |-> TRUE, samples |-> <<>>]

SampleList(names) == [none |-> FALSE, samples |-> names]

\* contents of the sample files named by --samples, in order
SampleFiles == << <<"s1">>, <<"s2", "s9">> >>

Range(seq) == {seq[i] : i \in DOMAIN seq}

RECURSIVE SumOver(_, _)
SumOver(f, S) ==
    IF S = {} THEN 0
    ELSE LET x == CHOOSE y \in S : TRUE IN f[x] + SumOver(f, S \ {x})

\* samples of samplelist (all samples if None) with a call at the record
CalledSamples(trrecord, samplelist) ==
    {s \in Samples : /\ trrecord.calls[s] # NoCall
                     /\ (samplelist.none \/ s \in Range(samplelist.samples))}

AlleleKey(a, uselength) == IF uselength THEN AlleleLen[a] ELSE a

\* TRRecord.GetAlleleCounts: allele -> number of called copies
GetAlleleCounts(trrecord, uselength, samplelist) ==
    LET called == CalledSamples(trrecord, samplelist)
        keys == {AlleleKey(trrecord.calls[s][i], uselength) :
                    s \in called, i \in 1..2}
        copies(k) == [s \in called |->
                        Cardinality({i \in 1..2 :
                            AlleleKey(trrecord.calls[s][i], uselength) = k})]
    IN  [k \in keys |-> SumOver(copies(k), called)]

\* TRRecord.GetAlleleFreqs: allele -> count / total count
GetAlleleFreqs(trrecord, uselength, samplelist) ==
    LET counts == GetAlleleCounts(trrecord, uselength, samplelist)
        total == SumOver(counts, DOMAIN counts)
    IN  [k \in DOMAIN counts |-> Fl(counts[k], total)]

\* an unordered genotype as the set of its alleles
Genotype(trrecord, s, uselength) ==
    {AlleleKey(trrecord.calls[s][i], uselength) : i \in 1..2}

\* TRRecord.GetGenotypeCounts: genotype -> number of samples
GetGenotypeCounts(trrecord, uselength, samplelist) ==
    LET called == CalledSamples(trrecord, samplelist)
        gts == {Genotype(trrecord, s, uselength) : s \in called}
    IN  [g \in gts |->
            Cardinality({s \in called : Genotype(trrecord, s, uselength) = g})]

RECURSIVE MaxOf(_)
MaxOf(S) ==
    LET x == CHOOSE y \in S : TRUE
    IN  IF S = {x} THEN x
        ELSE LET m == MaxOf(S \ {x}) IN IF x > m THEN x ELSE m

RECURSIVE MinOf(_)
MinOf(S) ==
    LET x == CHOOSE y \in S : TRUE
    IN  IF S = {x} THEN x
        ELSE LET m == MinOf(S \ {x}) IN IF x < m THEN x ELSE m

\* TRRecord.GetMaxAllele: longest called allele, nan if none
GetMaxAllele(trrecord, samplelist) ==
    LET counts == GetAlleleCounts(trrecord, TRUE, samplelist)
    IN  IF DOMAIN counts = {} THEN NaN ELSE Fl(MaxOf(DOMAIN counts), 1)

(***************************************************************************)
(* trtools.utils.utils: the statistics of an allele distribution.          *)
(* All frequencies of one distribution share the denominator (the total).  *)
(***************************************************************************)
Total(allele_freqs) ==
    LET k == CHOOSE x \in DOMAIN allele_freqs : TRUE IN allele_freqs[k].d

SumSquares(allele_freqs) ==
    SumOver([k \in DOMAIN allele_freqs |-> allele_freqs[k].n * allele_freqs[k].n],
            DOMAIN allele_freqs)

\* 1 - sum of p^2
utils_GetHeterozygosity(allele_freqs) ==
    IF DOMAIN allele_freqs = {} THEN NaN
    ELSE LET t == Total(allele_freqs)
         IN  Fl(t * t - SumSquares(allele_freqs), t * t)

\* -p * log2(p) in millionths, for the frequencies k/4 of up to two diploid samples
NegPLog2P(p) ==
    LET q == (4 * p.n) \div p.d
    IN  IF q = 4 THEN 0 ELSE IF q = 3 THEN 311278 ELSE 500000

\* -sum of p * log2(p)
utils_GetEntropy(allele_freqs) ==
    IF DOMAIN allele_freqs = {} THEN NaN
    ELSE Fl(SumOver([k \in DOMAIN allele_freqs |-> NegPLog2P(allele_freqs[k])],
                    DOMAIN allele_freqs), 1000000)

\* sum of p * a
utils_GetMean(allele_freqs) ==
    IF DOMAIN allele_freqs = {} THEN NaN
    ELSE Fl(SumOver([k \in DOMAIN allele_freqs |-> allele_freqs[k].n * k],
                    DOMAIN allele_freqs), Total(allele_freqs))

\* the most frequent allele, the smallest of them on a tie
utils_GetMode(allele_freqs) ==
    IF DOMAIN allele_freqs = {} THEN NaN
    ELSE LET top == MaxOf({allele_freqs[k].n : k \in DOMAIN allele_freqs})
         IN  Fl(MinOf({k \in DOMAIN allele_freqs : allele_freqs[k].n = top}), 1)

\* sum of p * (a - mean)^2 = (t * sum(c a^2) - sum(c a)^2) / t^2
utils_GetVariance(allele_freqs) ==
    IF DOMAIN allele_freqs = {} THEN NaN
    ELSE LET t == Total(allele_freqs)
             s1 == SumOver([k \in DOMAIN allele_freqs |-> allele_freqs[k].n * k],
                           DOMAIN allele_freqs)
             s2 == SumOver([k \in DOMAIN allele_freqs |-> allele_freqs[k].n * k * k],
                           DOMAIN allele_freqs)
         IN  Fl(t * s2 - s1 * s1, t * t)

RECURSIVE IntPow(_, _)
IntPow(b, k) == IF k <= 0 THEN 1 ELSE b * IntPow(b, k - 1)

RECURSIVE Choose(_, _)
Choose(n, k) == IF k = 0 \/ k = n THEN 1 ELSE Choose(n - 1, k - 1) + Choose(n - 1, k)

\* two-sided binomial test of the number of heterozygous individuals against
\* the expected heterozygosity 1 - sum of p^2; nan if nobody is called or a
\* genotype holds an allele that has no frequency
utils_GetHardyWeinbergBinomialTest(allele_freqs, genotype_counts) ==
    LET nsamp == SumOver(genotype_counts, DOMAIN genotype_counts)
    IN  IF nsamp = 0 \/ DOMAIN allele_freqs = {}
           \/ \E g \in DOMAIN genotype_counts : ~(g \subseteq DOMAIN allele_freqs)
        THEN NaN
        ELSE
        LET t == Total(allele_freqs)
            den == t * t
            het == den - SumSquares(allele_freqs)
            nhet == SumOver([g \in DOMAIN genotype_counts |->
                                IF Cardinality(g) > 1 THEN genotype_counts[g] ELSE 0],
                            DOMAIN genotype_counts)
            prob == [j \in 0..nsamp |->
                        Choose(nsamp, j) * IntPow(het, j) * IntPow(den - het, nsamp - j)]
        IN  Fl(SumOver([j \in 0..nsamp |-> IF prob[j] <= prob[nhet] THEN prob[j] ELSE 0],
                       0..nsamp),
               IntPow(den, nsamp))

(***************************************************************************)
(* statSTR.py: the statistic functions.  Each returns its Python return    *)
(* value (ret), the list object it was handed as it is after the call      *)
(* (samplelists; the functions append to it in place), and the TRRecord    *)
(* calls it made (calls).                                                  *)
(***************************************************************************)
Call(fn, uselength, samplelist) ==
    [fn |-> fn, uselength |-> uselength, samplelist |-> samplelist]

\* samplelists.append(None) without the test of the length
AppendNone(samplelists) == Append(samplelists, None)

\* if len(samplelists) == 0: samplelists.append(None)
AppendNoneIfEmpty(samplelists) ==
    IF Len(samplelists) = 0 THEN Append(samplelists, None) ELSE samplelists

\* GetHeader without its case for no prefixes
GetHeader_NoPrefixCase(header, prefixes) ==
    [i \in 1..Len(prefixes) |-> header \o "-" \o prefixes[i]]

GetHeader(header, prefixes) ==
    IF Len(prefixes) = 0 THEN <<header>>
    ELSE [i \in 1..Len(prefixes) |-> header \o "-" \o prefixes[i]]

GetThresh(trrecord, samplelists) ==
    IF Len(samplelists) = 0
    THEN [ret |-> <<GetMaxAllele(trrecord, None)>>,
          samplelists |-> samplelists,
          calls |-> <<Call("GetMaxAllele", TRUE, None)>>]
    ELSE [ret |-> [i \in 1..Len(samplelists) |-> GetMaxAllele(trrecord, samplelists[i])],
          samplelists |-> samplelists,
          calls |-> [i \in 1..Len(samplelists) |->
                        Call("GetMaxAllele", TRUE, samplelists[i])]]

KeyRank(k, uselength) == IF uselength THEN k ELSE StrRank[k]

\* "%s" % allele
KeyStr(k, uselength) == IF uselength THEN StrIntFloat(k) ELSE k

\* sorted(keys)
RECURSIVE Sorted(_, _)
Sorted(keys, uselength) ==
    IF keys = {} THEN <<>>
    ELSE LET lo == CHOOSE k \in keys :
                     \A j \in keys : KeyRank(k, uselength) <= KeyRank(j, uselength)
         IN  <<lo>> \o Sorted(keys \ {lo}, uselength)

\* ",".join(items)
RECURSIVE Join(_)
Join(items) ==
    IF Len(items) = 0 THEN ""
    ELSE IF Len(items) = 1 THEN items[1]
    ELSE items[1] \o "," \o Join(Tail(items))

AFreqStr(trrecord, sl, count, uselength) ==
    IF count
    THEN LET allele_counts == GetAlleleCounts(trrecord, uselength, sl)
             keys == Sorted(DOMAIN allele_counts, uselength)
         IN  IF DOMAIN allele_counts = {} THEN "."
             ELSE Join([i \in 1..Len(keys) |->
                          KeyStr(keys[i], uselength) \o ":"
                          \o ToString(allele_counts[keys[i]])])
    ELSE LET allele_freqs == GetAlleleFreqs(trrecord, uselength, sl)
             keys == Sorted(DOMAIN allele_freqs, uselength)
         IN  IF DOMAIN allele_freqs = {} THEN "."
             ELSE Join([i \in 1..Len(keys) |->
                          KeyStr(keys[i], uselength) \o ":"
                          \o FormatF3(allele_freqs[keys[i]])])

GetAFreq(trrecord, samplelists, count, uselength) ==
    LET sls == AppendNoneIfEmpty(samplelists)
    IN  [ret |-> [i \in 1..Len(sls) |-> AFreqStr(trrecord, sls[i], count, uselength)],
         samplelists |-> sls,
         calls |-> [i \in 1..Len(sls) |->
                      Call(IF count THEN "GetAlleleCounts" ELSE "GetAlleleFreqs",
                           uselength, sls[i])]]

\* the calls of a function that asks for the frequencies and then the genotype
\* counts of each sample list in turn
RECURSIVE FreqAndGenotypeCalls(_, _)
FreqAndGenotypeCalls(sls, uselength) ==
    IF Len(sls) = 0 THEN <<>>
    ELSE << Call("GetAlleleFreqs", uselength, sls[1]),
            Call("GetGenotypeCounts", uselength, sls[1]) >>
         \o FreqAndGenotypeCalls(Tail(sls), uselength)

GetHWEP(trrecord, samplelists, uselength) ==
    LET sls == AppendNoneIfEmpty(samplelists)
    IN  [ret |-> [i \in 1..Len(sls) |->
                    utils_GetHardyWeinbergBinomialTest(
                        GetAlleleFreqs(trrecord, uselength, sls[i]),
                        GetGenotypeCounts(trrecord, uselength, sls[i]))],
         samplelists |-> sls,
         calls |-> FreqAndGenotypeCalls(sls, uselength)]

\* GetHet with uselength ignored, as in GetMean
GetHet_OnLengths(trrecord, samplelists, uselength) ==
    LET sls == AppendNoneIfEmpty(samplelists)
    IN  [ret |-> [i \in 1..Len(sls) |->
                    utils_GetHeterozygosity(GetAlleleFreqs(trrecord, TRUE, sls[i]))],
         samplelists |-> sls,
         calls |-> [i \in 1..Len(sls) |-> Call("GetAlleleFreqs", TRUE, sls[i])]]

GetHet(trrecord, samplelists, uselength) ==
    LET sls == AppendNoneIfEmpty(samplelists)
    IN  [ret |-> [i \in 1..Len(sls) |->
                    utils_GetHeterozygosity(GetAlleleFreqs(trrecord, uselength, sls[i]))],
         samplelists |-> sls,
         calls |-> [i \in 1..Len(sls) |-> Call("GetAlleleFreqs", uselength, sls[i])]]

\* GetEntropy asking for the frequencies of each list a second time
GetEntropy_BuildsTwice(trrecord, samplelists, uselength) ==
    LET sls == AppendNoneIfEmpty(samplelists)
    IN  [ret |-> [i \in 1..Len(sls) |->
                    IF DOMAIN GetAlleleFreqs(trrecord, uselength, sls[i]) = {} THEN NaN
                    ELSE utils_GetEntropy(GetAlleleFreqs(trrecord, uselength, sls[i]))],
         samplelists |-> sls,
         calls |-> [i \in 1..Len(sls) |-> Call("GetAlleleFreqs", uselength, sls[i])]
                   \o [i \in 1..Len(sls) |-> Call("GetAlleleFreqs", uselength, sls[i])]]

GetEntropy(trrecord, samplelists, uselength) ==
    LET sls == AppendNoneIfEmpty(samplelists)
    IN  [ret |-> [i \in 1..Len(sls) |->
                    utils_GetEntropy(GetAlleleFreqs(trrecord, uselength, sls[i]))],
         samplelists |-> sls,
         calls |-> [i \in 1..Len(sls) |-> Call("GetAlleleFreqs", uselength, sls[i])]]

\* GetMean, GetMode and GetVariance take uselength and do not read it
GetMean(trrecord, samplelists, uselength) ==
    LET sls == AppendNoneIfEmpty(samplelists)
    IN  [ret |-> [i \in 1..Len(sls) |->
                    utils_GetMean(GetAlleleFreqs(trrecord, TRUE, sls[i]))],
         samplelists |-> sls,
         calls |-> [i \in 1..Len(sls) |-> Call("GetAlleleFreqs", TRUE, sls[i])]]

GetMode(trrecord, samplelists, uselength) ==
    LET sls == AppendNoneIfEmpty(samplelists)
    IN  [ret |-> [i \in 1..Len(sls) |->
                    utils_GetMode(GetAlleleFreqs(trrecord, TRUE, sls[i]))],
         samplelists |-> sls,
         calls |-> [i \in 1..Len(sls) |-> Call("GetAlleleFreqs", TRUE, sls[i])]]

GetVariance(trrecord, samplelists, uselength) ==
    LET sls == AppendNoneIfEmpty(samplelists)
    IN  [ret |-> [i \in 1..Len(sls) |->
                    utils_GetVariance(GetAlleleFreqs(trrecord, TRUE, sls[i]))],
         samplelists |-> sls,
         calls |-> [i \in 1..Len(sls) |-> Call("GetAlleleFreqs", TRUE, sls[i])]]

\* GetGenotypeCounts is called with its default uselength (True)
GetNumSamples(trrecord, samplelists) ==
    LET sls == AppendNoneIfEmpty(samplelists)
    IN  [ret |-> [i \in 1..Len(sls) |->
                    LET gc == GetGenotypeCounts(trrecord, TRUE, sls[i])
                    IN  SumOver(gc, DOMAIN gc)],
         samplelists |-> sls,
         calls |-> [i \in 1..Len(sls) |-> Call("GetGenotypeCounts", TRUE, sls[i])]]

\* precision_format = "\t{:." + str(args.precision) + "}", as the prefix and the
\* precision the format specification holds
PrecisionFormat(precision) == [prefix |-> "\t", precision |-> precision]

\* format_nan_precision with the tab left out of the nan marker
format_nan_precision_NoTab(precision_format, val) ==
    IF isnan(val) THEN "nan"
    ELSE precision_format.prefix \o FormatGeneral(precision_format.precision, val)

format_nan_precision(precision_format, val) ==
    IF isnan(val) THEN "\tnan"
    ELSE precision_format.prefix \o FormatGeneral(precision_format.precision, val)

(***************************************************************************)
(* PlotAlleleFreqs.  raised: the exception the call ends with, "none" if   *)
(* the file is saved; render_ok: whether matplotlib can draw and save.     *)
(***************************************************************************)
PlotAlleleFreqs(trrecord, outprefix, samplelists, prefixes, render_ok) ==
    LET default == Len(samplelists) = 0
        sls == IF default THEN <<None>> ELSE samplelists
        labels == IF default THEN <<"sample">> ELSE prefixes
        allele_set == UNION {DOMAIN GetAlleleFreqs(trrecord, TRUE, sls[i]) :
                                i \in 1..Len(sls)}
    IN  [raised |-> IF allele_set = {} THEN "ValueError"
                    ELSE IF Len(labels) < Len(sls) THEN "IndexError"
                    ELSE IF ~render_ok THEN "OSError"
                    ELSE "none",
         fname |-> outprefix \o "-" \o trrecord.CHROM \o "-"
                   \o ToString(trrecord.POS) \o ".pdf",
         nlists |-> Len(sls),
         labels |-> labels,
         calls |-> [i \in 1..Len(sls) |-> Call("GetAlleleFreqs", TRUE, sls[i])]]

(***************************************************************************)
(* main(): the statistic blocks of a row                                   *)
(***************************************************************************)
\* the statistic flags, in the order main tests them
StatOrder == <<"thresh", "afreq", "acount", "hwep", "het", "entropy",
               "mean", "mode", "var", "numcalled">>

StatNames == Range(StatOrder)

Tagged(stat, cs) ==
    [i \in 1..Len(cs) |-> [by |-> stat, fn |-> cs[i].fn,
                           uselength |-> cs[i].uselength,
                           samplelist |-> cs[i].samplelist]]

Formatted(a, vals) ==
    [i \in 1..Len(vals) |-> format_nan_precision(PrecisionFormat(a.precision), vals[i])]

Prefixed(vals) == [i \in 1..Len(vals) |-> "\t" \o vals[i]]

PrefixedInts(vals) == [i \in 1..Len(vals) |-> "\t" \o ToString(vals[i])]

\* the chunks main writes for the values a statistic function returned
FloatBlock(a, r) ==
    [chunks |-> Formatted(a, r.ret), samplelists |-> r.samplelists, calls |-> r.calls]

TextBlock(r) ==
    [chunks |-> Prefixed(r.ret), samplelists |-> r.samplelists, calls |-> r.calls]

IntBlock(r) ==
    [chunks |-> PrefixedInts(r.ret), samplelists |-> r.samplelists, calls |-> r.calls]

\* one "if args.<stat>:" block of the loop body: the call main makes and the
\* chunks it writes
StatBlock(stat, a, trrecord, samplelists) ==
    IF stat = "thresh" THEN FloatBlock(a, GetThresh(trrecord, samplelists))
    ELSE IF stat = "afreq"
    THEN TextBlock(GetAFreq(trrecord, samplelists, FALSE, a.use_length))
    ELSE IF stat = "acount"
    THEN TextBlock(GetAFreq(trrecord, samplelists, TRUE, a.use_length))
    ELSE IF stat = "hwep"
    THEN FloatBlock(a, GetHWEP(trrecord, samplelists, a.use_length))
    ELSE IF stat = "het"
    THEN FloatBlock(a, GetHet(trrecord, samplelists, a.use_length))
    ELSE IF stat = "entropy"
    THEN FloatBlock(a, GetEntropy(trrecord, samplelists, a.use_length))
    ELSE IF stat = "mean" THEN FloatBlock(a, GetMean(trrecord, samplelists, TRUE))
    ELSE IF stat = "mode" THEN FloatBlock(a, GetMode(trrecord, samplelists, TRUE))
    ELSE IF stat = "var" THEN FloatBlock(a, GetVariance(trrecord, samplelists, TRUE))
    ELSE IntBlock(GetNumSamples(trrecord, samplelists))

\* the row so far, extended by one block
Extended(st, stat, b) ==
    [chunks |-> st.chunks \o b.chunks,
     samplelists |-> b.samplelists,
     calls |-> st.calls \o Tagged(stat, b.calls)]

\* the blocks from the i-th flag on, run in order on the same list object
RECURSIVE StatBlocks(_, _, _, _)
StatBlocks(i, a, trrecord, st) ==
    IF i > Len(StatOrder) THEN st
    ELSE IF StatOrder[i] \notin a.stats THEN StatBlocks(i + 1, a, trrecord, st)
    ELSE StatBlocks(i + 1, a, trrecord,
                    Extended(st, StatOrder[i],
                             StatBlock(StatOrder[i], a, trrecord, st.samplelists)))

\* the coordinates main writes first, as their three tab-separated fields
Coordinates(trrecord) ==
    << trrecord.CHROM, ToString(trrecord.POS),
       ToString(trrecord.POS + Len(trrecord.ref_allele)) >>

\* the row of a record and the state of the list after it
Row(a, trrecord, samplelists) ==
    StatBlocks(1, a, trrecord,
               [chunks |-> Coordinates(trrecord), samplelists |-> samplelists,
                calls |-> <<>>])

\* header = ["chrom","start","end"] extended by GetHeader of each requested flag
RECURSIVE HeaderFrom(_, _, _)
HeaderFrom(i, a, prefixes) ==
    IF i > Len(StatOrder) THEN <<>>
    ELSE (IF StatOrder[i] \in a.stats THEN GetHeader(StatOrder[i], prefixes) ELSE <<>>)
         \o HeaderFrom(i + 1, a, prefixes)

Header(a, prefixes) == <<"chrom", "start", "end">> \o HeaderFrom(1, a, prefixes)

\* if args.plot_afreq and num_plotted <= MAXPLOTS
PlotWanted(a, plotted) == a.plot_afreq /\ plotted <= MAXPLOTS

\* sample_prefixes when --sample-prefixes is absent: "1", "2", ...
DefaultPrefixes(nfiles) == [i \in 1..nfiles |-> ToString(i)]

\* sample_lists as main builds it from the sample files
LoadedLists(a) == [i \in 1..a.samples |-> SampleList(SampleFiles[i])]

LoadedPrefixes(a) ==
    IF a.samples = 0 THEN <<>>
    ELSE IF Len(a.sample_prefixes) > 0 THEN a.sample_prefixes
    ELSE DefaultPrefixes(a.samples)

\* the try block up to the header: what is written, and whether main returns 1
\* the header written before the stdout-with-plots test
OpenAndWriteHeader_HeaderFirst(a, header) ==
    [failed |-> a.out = "stdout" /\ a.plot_afreq, lines |-> <<header>>,
     opened |-> TRUE]

OpenAndWriteHeader(a, header) ==
    IF a.out = "stdout" /\ a.plot_afreq
    THEN [failed |-> TRUE, lines |-> <<>>, opened |-> FALSE]
    ELSE [failed |-> FALSE, lines |-> <<header>>, opened |-> TRUE]

(***************************************************************************)
(* The statistic functions called on their own.  A function's default      *)
(* samplelists ("samplelists = []" in its signature) is one list object,   *)
(* made when the function is defined and shared by every call that leaves  *)
(* the argument out.                                                       *)
(***************************************************************************)
\* the function main calls for a statistic flag
FnOf(stat) ==
    IF stat = "thresh" THEN "GetThresh"
    ELSE IF stat \in {"afreq", "acount"} THEN "GetAFreq"
    ELSE IF stat = "hwep" THEN "GetHWEP"
    ELSE IF stat = "het" THEN "GetHet"
    ELSE IF stat = "entropy" THEN "GetEntropy"
    ELSE IF stat = "mean" THEN "GetMean"
    ELSE IF stat = "mode" THEN "GetMode"
    ELSE IF stat = "var" THEN "GetVariance"
    ELSE "GetNumSamples"

StatFunctions == {FnOf(stat) : stat \in StatNames}

\* the default list objects as the def statements make them
NoDefaults == [f \in StatFunctions |-> <<>>]

\* the kinds of call: a statistic, with samplelists left out or passed
CallKinds == StatNames \X BOOLEAN

NoHistory == [k \in CallKinds |-> [times |-> 0, rets |-> {}]]

\* the call of the function of a statistic, with count and uselength as main
\* passes them
StatCall(stat, trrecord, samplelists, uselength) ==
    IF stat = "thresh" THEN GetThresh(trrecord, samplelists)
    ELSE IF stat = "afreq" THEN GetAFreq(trrecord, samplelists, FALSE, uselength)
    ELSE IF stat = "acount" THEN GetAFreq(trrecord, samplelists, TRUE, uselength)
    ELSE IF stat = "hwep" THEN GetHWEP(trrecord, samplelists, uselength)
    ELSE IF stat = "het" THEN GetHet(trrecord, samplelists, uselength)
    ELSE IF stat = "entropy" THEN GetEntropy(trrecord, samplelists, uselength)
    ELSE IF stat = "mean" THEN GetMean(trrecord, samplelists, TRUE)
    ELSE IF stat = "mode" THEN GetMode(trrecord, samplelists, TRUE)
    ELSE IF stat = "var" THEN GetVariance(trrecord, samplelists, TRUE)
    ELSE GetNumSamples(trrecord, samplelists)

(***************************************************************************)
(* run() and main() as steps                                               *)
(***************************************************************************)
\* values of --sample-prefixes after split(","); <<>> when the option is absent
PrefixArgs == {<<>>, <<"ctl">>, <<"ctl", "case">>}

ArgSpace(outs, plotflags, statsets) ==
    [out : outs, plot_afreq : plotflags, use_length : BOOLEAN,
     samples : 0..Len(SampleFiles), sample_prefixes : PrefixArgs,
     stats : statsets, precision : {DefaultPrecision}]

FmtIdle == [val |-> NaN, precision |-> DefaultPrecision, out |-> ""]

\* the state before run() is entered
Fresh(a, n) ==
    /\ args = a
    /\ invcf = n
    /\ status = "running"
    /\ exc = "none"
    /\ error = "none"
    /\ sample_lists = <<>>
    /\ sample_prefixes = <<>>
    /\ outf = <<>>
    /\ outstate = "unopened"
    /\ num_plotted = 0
    /\ nrecords = 0
    /\ plots = <<>>
    /\ plotcalls = 0
    /\ consumed = <<>>
    /\ calls = <<>>
    /\ defaults = NoDefaults
    /\ history = NoHistory

Start(a, n) ==
    /\ Fresh(a, n)
    /\ pc = "getargs"
    /\ fmt = FmtIdle

\* main returns 1 (or getargs returns None) after reporting a configuration error
Fail(kind) ==
    /\ error' = kind
    /\ status' = "exit1"
    /\ pc' = "done"

\* run(): getargs returns None when no statistic flag is set, and run exits 1
GetArgs ==
    /\ pc = "getargs"
    /\ IF args.stats = {}
       THEN Fail("nostat")
       ELSE pc' = "paths" /\ UNCHANGED <<error, status>>
    /\ UNCHANGED <<args, exc, sample_lists, sample_prefixes, outf, outstate,
                   num_plotted, nrecords, plots, plotcalls, consumed, calls,
                   invcf, fmt, defaults, history>>

\* main: the three path checks
CheckPaths ==
    /\ pc = "paths"
    /\ \E vcf_exists \in BOOLEAN, outdir_exists \in BOOLEAN,
          out_is_dir_with_sep \in BOOLEAN :
          IF ~vcf_exists THEN Fail("novcf")
          ELSE IF ~outdir_exists THEN Fail("nooutdir")
          ELSE IF out_is_dir_with_sep THEN Fail("outisdir")
          ELSE pc' = "samples" /\ UNCHANGED <<error, status>>
    /\ UNCHANGED <<args, exc, sample_lists, sample_prefixes, outf, outstate,
                   num_plotted, nrecords, plots, plotcalls, consumed, calls,
                   invcf, fmt, defaults, history>>

\* main: "Load samples"
LoadSamples ==
    /\ pc = "samples"
    /\ IF args.samples > 0 /\ Len(LoadedPrefixes(args)) # args.samples
       THEN /\ Fail("prefixcount")
            /\ sample_prefixes' = LoadedPrefixes(args)
            /\ UNCHANGED sample_lists
       ELSE /\ sample_lists' = LoadedLists(args)
            /\ sample_prefixes' = LoadedPrefixes(args)
            /\ pc' = "reader"
            /\ UNCHANGED <<error, status>>
    /\ UNCHANGED <<args, exc, outf, outstate, num_plotted, nrecords, plots,
                   plotcalls, consumed, calls, invcf, fmt, defaults, history>>

\* main: utils.LoadSingleReader; None when the file cannot be read as asked
LoadReader ==
    /\ pc = "reader"
    /\ \E loaded \in BOOLEAN :
          IF ~loaded THEN Fail("noreader")
          ELSE pc' = "open" /\ UNCHANGED <<error, status>>
    /\ UNCHANGED <<args, exc, sample_lists, sample_prefixes, outf, outstate,
                   num_plotted, nrecords, plots, plotcalls, consumed, calls,
                   invcf, fmt, defaults, history>>

\* main: the header, the output destination, the header line.  With stdout and
\* plotting main reports the error and returns 1 inside the try; the finally
\* clause then reads outf, which was never bound, and the UnboundLocalError
\* takes the place of the return value.
OpenOutput ==
    /\ pc = "open"
    /\ LET o == OpenAndWriteHeader(args, Header(args, sample_prefixes))
       IN  /\ outf' = outf \o o.lines
           /\ IF o.failed
              THEN /\ Fail("stdoutplot")
                   /\ exc' = "UnboundLocalError"
                   /\ UNCHANGED outstate
              ELSE /\ outstate' = "open"
                   /\ pc' = "loop"
                   /\ UNCHANGED <<error, status, exc>>
    /\ UNCHANGED <<args, sample_lists, sample_prefixes, num_plotted, nrecords,
                   plots, plotcalls, consumed, calls, invcf, fmt, defaults, history>>

\* finally: outf.close() unless the destination is stdout
Closed == IF args.out = "stdout" THEN outstate ELSE "closed"

\* the loop body for one record: wanted, whether the plot is made; p, what
\* PlotAlleleFreqs does; r, the row and the list after it
LoopBody(trrecord, wanted, p, r) ==
    /\ invcf' = invcf - 1
    /\ nrecords' = nrecords + 1
    /\ consumed' = Append(consumed, trrecord)
    /\ plotcalls' = IF wanted THEN plotcalls + 1 ELSE plotcalls
    /\ IF wanted /\ p.raised # "none"
       THEN \* the exception leaves main through the finally clause
            /\ exc' = p.raised
            /\ status' = "exit1"
            /\ pc' = "done"
            /\ outstate' = Closed
            /\ calls' = Tagged("plot", p.calls)
            /\ UNCHANGED <<num_plotted, plots, outf, sample_lists>>
       ELSE /\ num_plotted' = IF wanted THEN num_plotted + 1 ELSE num_plotted
            /\ plots' = IF wanted THEN Append(plots, p.fname) ELSE plots
            /\ outf' = Append(outf, r.chunks)
            /\ sample_lists' = r.samplelists
            /\ calls' = (IF wanted THEN Tagged("plot", p.calls) ELSE <<>>) \o r.calls
            /\ UNCHANGED <<exc, status, pc, outstate>>

\* main: one pass of "for record in region"
ProcessRecord ==
    /\ pc = "loop"
    /\ invcf > 0
    /\ \E trrecord \in Records, render_ok \in BOOLEAN :
          LoopBody(trrecord,
                   PlotWanted(args, num_plotted),
                   PlotAlleleFreqs(trrecord, args.out, sample_lists,
                                   sample_prefixes, render_ok),
                   Row(args, trrecord, sample_lists))
    /\ UNCHANGED <<args, error, sample_prefixes, fmt, defaults, history>>

\* main: the reader is exhausted; finally, "Done", return 0
EndOfInput ==
    /\ pc = "loop"
    /\ invcf = 0
    /\ outstate' = Closed
    /\ status' = "exit0"
    /\ pc' = "done"
    /\ UNCHANGED <<args, exc, error, sample_lists, sample_prefixes, outf,
                   num_plotted, nrecords, plots, plotcalls, consumed, calls,
                   invcf, fmt, defaults, history>>

\* the formatter called on its own
Format ==
    /\ pc = "format"
    /\ fmt.out = ""
    /\ fmt' = [fmt EXCEPT !.out =
                 format_nan_precision(PrecisionFormat(fmt.precision), fmt.val)]
    /\ UNCHANGED <<args, pc, status, exc, error, sample_lists, sample_prefixes,
                   outf, outstate, num_plotted, nrecords, plots, plotcalls,
                   consumed, calls, invcf, defaults, history>>

\* number of calls the harness has made
NumCalls == SumOver([k \in CallKinds |-> history[k].times], CallKinds)

\* what a call of a statistic function leaves behind: its result, and the list
\* object it was handed (the function's default, or the caller's list)
AfterCall(stat, defaulted, r) ==
    /\ history' = [history EXCEPT ![<<stat, defaulted>>] =
                      [times |-> @.times + 1, rets |-> @.rets \cup {r.ret}]]
    /\ defaults' = IF defaulted
                   THEN [defaults EXCEPT ![FnOf(stat)] = r.samplelists]
                   ELSE defaults
    /\ sample_lists' = IF defaulted THEN sample_lists ELSE r.samplelists

\* a statistic function called on the record at hand, with samplelists left out
\* or with the caller's list
CallStat ==
    /\ pc = "stat"
    /\ NumCalls < MaxCalls
    /\ \E stat \in StatNames, defaulted \in BOOLEAN :
          AfterCall(stat, defaulted,
                    StatCall(stat, consumed[1],
                             IF defaulted THEN defaults[FnOf(stat)] ELSE sample_lists,
                             args.use_length))
    /\ UNCHANGED <<args, pc, status, exc, error, sample_prefixes, outf, outstate,
                   num_plotted, nrecords, plots, plotcalls, consumed, calls,
                   invcf, fmt>>

Next ==
    \/ GetArgs
    \/ CheckPaths
    \/ LoadSamples
    \/ LoadReader
    \/ OpenOutput
    \/ ProcessRecord
    \/ EndOfInput

(***************************************************************************)
(* Specifications                                                          *)
(***************************************************************************)
\* the sets of statistic flags of the general specification
FewStats == {S \in SUBSET StatNames : Cardinality(S) <= MaxStats} \cup {StatNames}

\* any command line, inputs of up to MaxLoci records
Init ==
    \E a \in ArgSpace({"stdout", "res"}, BOOLEAN, FewStats), n \in 0..MaxLoci :
        Start(a, n)

Spec == Init /\ [][Next]_vars

\* every combination of statistic flags; no groups, one group with its default
\* label or two groups with given labels; --use-length, no plots, inputs of
\* MaxLoci records
InitCols ==
    \E a \in ArgSpace({"res"}, {FALSE}, SUBSET StatNames) :
        /\ Len(a.sample_prefixes) = (IF a.samples = 2 THEN 2 ELSE 0)
        /\ a.use_length
        /\ Start(a, MaxLoci)

SpecCols == InitCols /\ [][Next]_vars

\* plotting runs over inputs longer than the plot cap
InitPlot ==
    \E a \in ArgSpace({"res"}, {TRUE}, {{"thresh"}, {"het", "mean"}}),
       n \in MAXPLOTS..MaxPlotLoci :
        /\ a.sample_prefixes = <<>>
        /\ a.use_length
        /\ Start(a, n)

SpecPlot == InitPlot /\ [][Next]_vars

\* the formatter on its own: floats k/d and nan, precisions 1 to 3
FloatInputs ==
    {NaN} \cup {Fl(n, d) : n \in 0..MaxNum, d \in {1, 2, 4, 16}}

NoArgs ==
    [out |-> "res", plot_afreq |-> FALSE, use_length |-> FALSE, samples |-> 0,
     sample_prefixes |-> <<>>, stats |-> {}, precision |-> DefaultPrecision]

InitFmt ==
    \E v \in FloatInputs, p \in 1..DefaultPrecision :
        /\ Fresh(NoArgs, 0)
        /\ pc = "format"
        /\ fmt = [val |-> v, precision |-> p, out |-> ""]

NextFmt == Format

SpecFmt == InitFmt /\ [][NextFmt]_vars

\* the statistic functions on their own: one record, the group list of the
\* sample files (or no group), each call with samplelists left out or passed
InitStat ==
    \E a \in ArgSpace({"res"}, {FALSE}, {StatNames}), trrecord \in Records :
        /\ a.sample_prefixes = <<>>
        /\ args = a
        /\ pc = "stat"
        /\ status = "running"
        /\ exc = "none"
        /\ error = "none"
        /\ sample_lists = LoadedLists(a)
        /\ sample_prefixes = LoadedPrefixes(a)
        /\ outf = <<>>
        /\ outstate = "unopened"
        /\ num_plotted = 0
        /\ nrecords = 0
        /\ plots = <<>>
        /\ plotcalls = 0
        /\ consumed = <<trrecord>>
        /\ calls = <<>>
        /\ invcf = 0
        /\ fmt = FmtIdle
        /\ defaults = NoDefaults
        /\ history = NoHistory

\* runs of main, and the statistic functions on their own
InitIdem == Init \/ InitStat

NextIdem ==
    \/ GetArgs
    \/ CheckPaths
    \/ LoadSamples
    \/ LoadReader
    \/ OpenOutput
    \/ ProcessRecord
    \/ EndOfInput
    \/ CallStat

SpecIdem == InitIdem /\ [][NextIdem]_vars

(***************************************************************************)
(* What the output should hold, from the definitions of the statistics     *)
(***************************************************************************)
\* the groups every statistic is computed over: the sample files in order, or
\* the one implicit group of all samples
GroupLists(a) == IF a.samples = 0 THEN <<None>> ELSE LoadedLists(a)

\* the columns after the coordinates: requested statistics in the fixed order,
\* one column per group in group order
RECURSIVE ColumnsFrom(_, _)
ColumnsFrom(i, a) ==
    IF i > Len(StatOrder) THEN <<>>
    ELSE (IF StatOrder[i] \in a.stats
          THEN [g \in 1..Len(GroupLists(a)) |-> [stat |-> StatOrder[i], g |-> g]]
          ELSE <<>>)
         \o ColumnsFrom(i + 1, a)

Columns(a) == ColumnsFrom(1, a)

ColumnName(c, a) ==
    IF a.samples = 0 THEN c.stat ELSE c.stat \o "-" \o LoadedPrefixes(a)[c.g]

NumCalled(trrecord, sl, uselength) ==
    LET gc == GetGenotypeCounts(trrecord, uselength, sl) IN SumOver(gc, DOMAIN gc)

\* the text of a statistic of one group at one record, computed on the allele
\* representation uselength
CellOf(stat, a, trrecord, sl, uselength) ==
    LET af == GetAlleleFreqs(trrecord, uselength, sl)
        pf == PrecisionFormat(a.precision)
    IN  CASE stat = "thresh" -> format_nan_precision(pf, GetMaxAllele(trrecord, sl))
          [] stat = "afreq" -> "\t" \o AFreqStr(trrecord, sl, FALSE, uselength)
          [] stat = "acount" -> "\t" \o AFreqStr(trrecord, sl, TRUE, uselength)
          [] stat = "hwep" ->
                format_nan_precision(pf, utils_GetHardyWeinbergBinomialTest(
                    af, GetGenotypeCounts(trrecord, uselength, sl)))
          [] stat = "het" -> format_nan_precision(pf, utils_GetHeterozygosity(af))
          [] stat = "entropy" -> format_nan_precision(pf, utils_GetEntropy(af))
          [] stat = "mean" -> format_nan_precision(pf, utils_GetMean(af))
          [] stat = "mode" -> format_nan_precision(pf, utils_GetMode(af))
          [] stat = "var" -> format_nan_precision(pf, utils_GetVariance(af))
          [] OTHER -> "\t" \o ToString(NumCalled(trrecord, sl, uselength))

FlagStats == {"afreq", "acount", "hwep", "het", "entropy"}

\* the representation a statistic is to use
RepOf(stat, a) == IF stat \in FlagStats THEN a.use_length ELSE TRUE

ExpectedCell(stat, a, trrecord, sl) == CellOf(stat, a, trrecord, sl, RepOf(stat, a))

\* exceptions PlotAlleleFreqs can end with
PlotErrors == {"ValueError", "IndexError", "OSError"}

\* the row of the last record read was written
LastRowWritten == nrecords > 0 /\ Len(outf) = 1 + nrecords

(***************************************************************************)
(* C1 (as claimed): in a run in which no plot fails, PlotAlleleFreqs is    *)
(* invoked for at most MAXPLOTS loci; an input of MAXPLOTS + 1 loci ends   *)
(* with exactly MAXPLOTS plot files and a row for every locus.             *)
(***************************************************************************)
C1_PlotsNeverExceedCap ==
    exc = "none" =>
        /\ plotcalls <= MAXPLOTS
        /\ Len(plots) <= MAXPLOTS
        /\ (pc = "done" /\ error = "none" /\ nrecords = MAXPLOTS + 1)
              => (Len(plots) = MAXPLOTS /\ Len(outf) = MAXPLOTS + 2)

(***************************************************************************)
(* C2: every configuration error (no statistic, missing input, missing     *)
(* output directory, output location a directory, prefix count mismatch,   *)
(* plots with stdout) ends the run with a non-zero status before any       *)
(* record is read, with nothing written, and no run with such an error in  *)
(* its command line reaches the loop.                                      *)
(***************************************************************************)
ConfigErrors ==
    {"nostat", "novcf", "nooutdir", "outisdir", "prefixcount", "stdoutplot"}

C2_ConfigErrorsLeaveNoOutput ==
    /\ error \in ConfigErrors =>
          /\ pc = "done"
          /\ status = "exit1"
          /\ outf = <<>>
          /\ outstate = "unopened"
          /\ nrecords = 0 /\ consumed = <<>> /\ plots = <<>> /\ plotcalls = 0
    /\ (pc = "loop" \/ nrecords > 0) =>
          /\ args.stats # {}
          /\ ~(args.out = "stdout" /\ args.plot_afreq)
          /\ (args.samples > 0 => Len(sample_prefixes) = args.samples)
          /\ error = "none"

\* the stdout-with-plots error: reported inside the try block, run over
C2_Witness ==
    /\ error = "stdoutplot" /\ pc = "done" /\ status = "exit1"
    /\ exc = "UnboundLocalError" /\ outf = <<>>

(***************************************************************************)
(* C3 (as claimed): once the loop has started, the list passed as          *)
(* samplelists is the list main built from the sample files, whatever      *)
(* statistics have run.                                                    *)
(***************************************************************************)
C3_GroupListUnchanged ==
    (pc = "loop" \/ nrecords > 0) => sample_lists = LoadedLists(args)

(***************************************************************************)
(* C4: the header is chrom, start, end and then, for each requested        *)
(* statistic in the fixed order, one column per sample group (one          *)
(* unsuffixed column without groups); every row has as many fields as the  *)
(* header, and the field under each column is that statistic of that group *)
(* at the row's record.                                                    *)
(***************************************************************************)
C4_ColumnsAgree ==
    Len(outf) > 0 =>
        LET cols == Columns(args)
            groups == GroupLists(args)
        IN  /\ outf[1] = <<"chrom", "start", "end">>
                         \o [j \in 1..Len(cols) |-> ColumnName(cols[j], args)]
            /\ \A i \in 2..Len(outf) :
                  /\ Len(outf[i]) = Len(outf[1])
                  /\ \A j \in 1..Len(cols) :
                        outf[i][3 + j] =
                            ExpectedCell(cols[j].stat, args, consumed[i - 1],
                                         groups[cols[j].g])

\* no groups, every statistic, a second row written after the first
C4_Witness ==
    /\ args.samples = 0 /\ args.stats = StatNames
    /\ Len(outf) >= 3
    /\ Len(outf[3]) = 3 + Len(StatOrder)
    /\ Len(outf[1]) = 3 + Len(StatOrder)

(***************************************************************************)
(* C5 (as claimed): when PlotAlleleFreqs fails for a record, the row of    *)
(* that record is still written.                                           *)
(***************************************************************************)
C5_PlotFailureKeepsRows ==
    exc \in PlotErrors => Len(outf) = 1 + Len(consumed)

(***************************************************************************)
(* C6 (as claimed): a record at which some group has no called sample      *)
(* never ends the run; its row is written, with nan in that group's float  *)
(* columns, "." in its table columns, 0 in numcalled, and the other        *)
(* groups' computed values in their columns.  (A record whose plot fails   *)
(* for a reason other than missing calls is left out.)                     *)
(***************************************************************************)
EmptyMarker(stat) ==
    IF stat \in {"afreq", "acount"} THEN "\t."
    ELSE IF stat = "numcalled" THEN "\t0"
    ELSE "\tnan"

C6_EmptyGroupNeverCrashes ==
    LET cols == Columns(args)
        groups == GroupLists(args)
        empty(i, g) == CalledSamples(consumed[i], groups[g]) = {}
    IN  \A i \in 1..Len(consumed) :
           ( /\ \E g \in 1..Len(groups) : empty(i, g)
             /\ ~(i = Len(consumed) /\ exc \in {"IndexError", "OSError"}) )
           => /\ Len(outf) >= i + 1
              /\ \A j \in 1..Len(cols) :
                    outf[i + 1][3 + j] =
                        IF empty(i, cols[j].g) THEN EmptyMarker(cols[j].stat)
                        ELSE ExpectedCell(cols[j].stat, args, consumed[i],
                                          groups[cols[j].g])

(***************************************************************************)
(* C7 (as claimed): a run that passes the configuration checks writes the  *)
(* header first and then one row per record read, in the order read, and   *)
(* ends only when the input is exhausted.  (Runs in which matplotlib       *)
(* itself fails are left out.)                                             *)
(***************************************************************************)
C7_OneRowPerLocusInOrder ==
    (pc \in {"loop", "done"} /\ error = "none" /\ exc # "OSError") =>
        /\ Len(outf) = 1 + Len(consumed)
        /\ outf[1] = Header(args, sample_prefixes)
        /\ \A i \in 1..Len(consumed) :
              SubSeq(outf[i + 1], 1, 3) = Coordinates(consumed[i])
        /\ (pc = "done" => invcf = 0 /\ status = "exit0")

(***************************************************************************)
(* C8 (as claimed): the formatter writes nan as a marker that is not the   *)
(* bare word "nan".                                                        *)
(***************************************************************************)
C8_MarkerIsNotBareNan ==
    (fmt.out # "" /\ isnan(fmt.val)) => fmt.out # "\t" \o "nan"

(***************************************************************************)
(* C8 (amended): the formatter writes nan as the fixed text "nan" after    *)
(* the tab, and writes no number that way.                                 *)
(***************************************************************************)
C8_NanMarkerIsFixedAndDistinct ==
    fmt.out # "" => (isnan(fmt.val) <=> fmt.out = "\t" \o "nan")

C8_Witness == fmt.out = "\tnan" /\ isnan(fmt.val)

(***************************************************************************)
(* C9: in every row, afreq, acount, hwep, het and entropy are the values   *)
(* on the representation --use-length selects (hwep with frequencies and   *)
(* genotype counts both on it), mean, mode and var are the values on       *)
(* lengths, and numcalled is the same on either representation.            *)
(***************************************************************************)
C9_RepresentationByFlag ==
    LET cols == Columns(args)
        groups == GroupLists(args)
    IN  /\ \A i \in 2..Len(outf) : \A j \in 1..Len(cols) :
              LET stat == cols[j].stat
                  cell == outf[i][3 + j]
                  on(ul) == CellOf(stat, args, consumed[i - 1], groups[cols[j].g], ul)
              IN  /\ stat \in FlagStats => cell = on(args.use_length)
                  /\ stat \in {"mean", "mode", "var"} => cell = on(TRUE)
                  /\ stat = "numcalled" => cell = on(TRUE) /\ cell = on(FALSE)
        /\ \A k \in 1..Len(calls) :
              /\ calls[k].by \in FlagStats => calls[k].uselength = args.use_length
              /\ calls[k].by \in {"mean", "mode", "var"} => calls[k].uselength

\* exact identities asked for, at a record where the two representations differ
C9_Witness ==
    /\ ~args.use_length /\ args.stats = StatNames /\ args.samples = 0
    /\ LastRowWritten
    /\ consumed[nrecords].POS = 10
    /\ outf[1 + nrecords][8] = "\t0.625"
    /\ CellOf("het", args, consumed[nrecords], None, TRUE) = "\t0.375"
    /\ outf[1 + nrecords][10] = "\t2.25"

(***************************************************************************)
(* C10 (as claimed): per record, the allele distributions the statistics   *)
(* build are at most (number of groups) x (number of representations       *)
(* used).                                                                  *)
(***************************************************************************)
\* the distributions built for the statistics of the last record
DistCalls ==
    {k \in 1..Len(calls) : /\ calls[k].by # "plot"
                           /\ calls[k].fn \in {"GetAlleleFreqs", "GetAlleleCounts"}}

DistStats == FlagStats \cup {"mean", "mode", "var"}

NoGroupResults(stat) ==
    history[<<stat, TRUE>>].rets
        \cup (IF args.samples = 0 THEN history[<<stat, FALSE>>].rets ELSE {})

C11_SameLocusSameValues ==
    /\ \A k \in CallKinds : Cardinality(history[k].rets) <= 1
    /\ \A stat \in StatNames : Cardinality(NoGroupResults(stat)) <= 1
    /\ \A i \in 1..Len(consumed) :
          i + 1 <= Len(outf) =>
              outf[i + 1] = Row(args, consumed[i], LoadedLists(args)).chunks

\* the allele frequencies asked for three times with samplelists left out: the
\* function's default list holds None from the first call on
C11_Witness ==
    /\ pc = "stat"
    /\ history[<<"afreq", TRUE>>].times = MaxCalls
    /\ defaults["GetAFreq"] = <<None>>
    /\ Cardinality(history[<<"afreq", TRUE>>].rets) = 1

(***************************************************************************)
(* C12 (as claimed): at every call of PlotAlleleFreqs main makes, the      *)
(* legend labels are as many as the sample lists plotted (one list None    *)
(* with the label "sample" when the call is given no list), so that        *)
(* sampleprefixes[i] is in range for every plotted list i.  Stated for the *)
(* calls that get as far as the bars, those on a record with a called      *)
(* allele.                                                                 *)
(***************************************************************************)
\* the call of PlotAlleleFreqs main makes in this step, if it makes one
PlotCallInStep ==
    PlotAlleleFreqs(consumed'[Len(consumed')], args.out, sample_lists,
                    sample_prefixes, TRUE)

C12_LabelForEveryPlottedList ==
    [][(plotcalls' = plotcalls + 1 /\ PlotCallInStep.raised # "ValueError") =>
          Len(PlotCallInStep.labels) = PlotCallInStep.nlists]_vars

====
